---- MODULE Spec2Model ----
(***************************************************************************)
(* LibroFmClient (src/src/LibroFmClient.ts): the client that logs in to    *)
(* the Libro.fm API, pages through the library, diffs it against the       *)
(* ledger of downloaded books and downloads a book.                        *)
(*                                                                         *)
(* init, login and downloadBook are one action each: the client is the     *)
(* only flow of control, so nothing runs between their awaits.  The        *)
(* pagination loop of getLibrary is one action per page request            *)
(* (fetchLibraryOk / fetchLibraryFail), entered by getLibrary or by        *)
(* getNewBooks; pc says whether the loop is running.                       *)
(*                                                                         *)
(* The collaborators (APIHandler, DownloadCLient, InputHandler) are the    *)
(* environment: every answer they can give is drawn from a small set.      *)
(* `calls` records, in order, the collaborator calls of the operation in   *)
(* progress (or of the last one), with their arguments and answers.        *)
(***************************************************************************)
EXTENDS Integers, Sequences, FiniteSets, TLC

\* ------------------------------------------------------------ JS values

\* undefined / null: the value of an attribute that is absent
Undefined == "undefined"

\* !v is false: a string that is neither absent nor empty
Truthy(v) == v # Undefined /\ v # ""

\* Array.prototype.join
RECURSIVE Join(_, _)
Join(seq, sep) ==
    IF Len(seq) = 0 THEN ""
    ELSE IF Len(seq) = 1 THEN seq[1]
    ELSE seq[1] \o sep \o Join(Tail(seq), sep)

\* Array.prototype.filter(Boolean)
FilterBoolean(seq) == SelectSeq(seq, Truthy)

Range(seq) == {seq[i] : i \in 1..Len(seq)}

\* ------------------------------------------------------------ bounds and input sets

\* the largest total_pages a library response reports
MaxTotalPages == 2

\* book.authors is absent, a string or a list of strings
NoAuthors == [kind |-> "absent", s |-> Undefined, l |-> <<>>]
AuthorString(s) == [kind |-> "string", s |-> s, l |-> <<>>]
AuthorList(l) == [kind |-> "list", s |-> Undefined, l |-> l]

bookA == [isbn |-> "i1", title |-> "The Book", series |-> "Saga", series_num |-> "2",
          authors |-> AuthorList(<<"A. Author", "B. Writer">>)]
bookB == [isbn |-> "i2", title |-> "The Book", series |-> Undefined, series_num |-> Undefined,
          authors |-> AuthorString("A. Author")]
bookC == [isbn |-> "i2", title |-> "Anon", series |-> "Saga", series_num |-> Undefined,
          authors |-> NoAuthors]
bookD == [isbn |-> "i2", title |-> "Anon", series |-> Undefined, series_num |-> "3",
          authors |-> AuthorString("")]
bookE == [isbn |-> "i2", title |-> "Anon", series |-> Undefined, series_num |-> Undefined,
          authors |-> AuthorList(<<>>)]

\* the books downloadBook is called with
Books == {bookA, bookB, bookC, bookD, bookE}

\* the item lists a library page can hold (i2 is on two pages with different items)
PageItems == {<<>>, <<bookA, bookB>>, <<bookC>>}

\* the answers of APIHandler.fetchLibrary that are not a failure
PageData == [audiobooks : PageItems, total_pages : 0..MaxTotalPages]

\* the errors an APIHandler call fails with
GatewayErrors == {"Unauthorized"}

\* the errors a DownloadCLient call fails with
TransferErrors == {"Disk full"}

Tokens == {"tok1", "tok2"}

Failure(errors) == [ok : {FALSE}, error : errors]

\* the answers of APIHandler.fetchLoginData
LoginOutcomes == Failure(GatewayErrors) \cup [ok : {TRUE}, access_token : Tokens]

\* the answers of APIHandler.fetchLibrary
LibraryOutcomes == Failure(GatewayErrors) \cup [ok : {TRUE}, data : PageData]

\* the answers of APIHandler.fetchDownloadMetadata for one isbn
Metadata(isbn) == {[isbn |-> isbn, parts |-> <<[url |-> "u1"], [url |-> "u2"]>>]}
MetadataOutcomes(isbn) ==
    Failure(GatewayErrors) \cup [ok : {TRUE}, data : Metadata(isbn)]

\* the second component of downloadFiles' answer: undefined, or the list of
\* the archives that were kept
NoZip == [defined |-> FALSE, paths |-> <<>>]
Zipped(paths) == [defined |-> TRUE, paths |-> paths]

\* the answers of DownloadCLient.downloadFiles: [path, zipped_files]
FilesOutcomes ==
    Failure(TransferErrors)
        \cup {[ok |-> TRUE, path |-> "p1", zipped_files |-> NoZip],
              [ok |-> TRUE, path |-> "p2", zipped_files |-> Zipped(<<"a.zip">>)]}

\* the answers of DownloadCLient.saveMetadata
SaveOutcomes == Failure(TransferErrors) \cup [ok : {TRUE}]

\* the answers of InputHandler.requestCredentials
Credentials == [username : {"user"}, password : {Undefined, "pass"}]

\* the answers of InputHandler.requestDownloadLocation
DownloadLocations == {Undefined, "dir"}

\* ------------------------------------------------------------ Config and State

\* Config.change(partial): the given fields replace the stored ones, also
\* when the given value is undefined
Change(cfg, partial) ==
    [k \in DOMAIN cfg |-> IF k \in DOMAIN partial THEN partial[k] ELSE cfg[k]]

\* State.hasBook(isbn); the ledger is a function from the isbns that have a
\* record to their records
hasBook(st, isbn) == isbn \in DOMAIN st

\* State.addBook(record): upsert by the book's isbn
addBook(st, record) ==
    [i \in DOMAIN st \cup {record.book.isbn} |->
        IF i = record.book.isbn THEN record ELSE st[i]]

\* State.findDiff(library): the library's books that have no record, in
\* the library's iteration order
findDiff(st, library) == SelectSeq(library, LAMBDA b : ~hasBook(st, b.isbn))

\* the Config a client is constructed with
InitialConfigs ==
    {[authToken |-> t, username |-> c.username, password |-> c.password, downloadDir |-> d] :
        t \in {Undefined} \cup Tokens,
        c \in {[username |-> "user", password |-> Undefined],
               [username |-> "user", password |-> "pass"]},
        d \in {Undefined, "dir"}}

\* a record of an earlier run of the program
OldRecord ==
    [book |-> bookA, path |-> "p0", meta |-> [isbn |-> "i1", parts |-> <<[url |-> "u0"]>>]]

\* the State a client is constructed with
InitialStates == {<<>>, addBook(<<>>, OldRecord)}

\* ------------------------------------------------------------ variables

VARIABLES
    config,      \* this.config: authToken, username, password, downloadDir
    state,       \* this.state: the ledger, isbn -> record
    pc,          \* "idle", or "fetchLibrary" while getLibrary's loop runs
    page,        \* getLibrary's page
    audiobooks,  \* getLibrary's audiobooks: the books in insertion order, one per isbn
    call,        \* the operation in progress or last run, with its arguments
    calls,       \* the collaborator calls it made, in order
    result,      \* how it ended: returned (with what) or threw (which error)
    remote,      \* full sync only: the remote catalog, page number -> answer
    sync         \* full sync only: how far the sync has come

vars == <<config, state, pc, page, audiobooks, call, calls, result, remote, sync>>

\* outside a full sync
NoSync == [phase |-> "off", todo |-> <<>>, reported |-> <<>>]

Pending == [status |-> "pending", error |-> "", books |-> <<>>, filename |-> ""]
ReturnedBooks(books) ==
    [status |-> "returned", error |-> "", books |-> books, filename |-> ""]
ReturnedString(s) ==
    [status |-> "returned", error |-> "", books |-> <<>>, filename |-> s]
ReturnedVoid == ReturnedString("")
Threw(e) == [status |-> "threw", error |-> e, books |-> <<>>, filename |-> ""]

Init ==
    /\ config \in InitialConfigs
    /\ state \in InitialStates
    /\ pc = "idle"
    /\ page = 1
    /\ audiobooks = <<>>
    /\ call = [op |-> "constructor"]
    /\ calls = <<>>
    /\ result = ReturnedVoid
    /\ remote = <<>>
    /\ sync = NoSync

\* ------------------------------------------------------------ login

\* mutant of loginRun: a failed login clears the token, as a failed page
\* request does
loginRunClearsToken(cfg, username, password, outcome) ==
    LET fetched == [fn |-> "fetchLoginData", username |-> username,
                    password |-> password, answer |-> outcome]
    IN  IF outcome.ok
        THEN [config |-> Change(cfg, [authToken |-> outcome.access_token]),
              calls |-> <<fetched>>, result |-> ReturnedVoid]
        ELSE [config |-> Change(cfg, [authToken |-> Undefined]),
              calls |-> <<fetched>>, result |-> Threw(outcome.error)]

\* the outcome of login(username, password) on config cfg when fetchLoginData
\* answers `outcome`: the config, the calls made and the result
loginRun(cfg, username, password, outcome) ==
    LET fetched == [fn |-> "fetchLoginData", username |-> username,
                    password |-> password, answer |-> outcome]
    IN  IF outcome.ok
        THEN [config |-> Change(cfg, [authToken |-> outcome.access_token]),
              calls |-> <<fetched>>, result |-> ReturnedVoid]
        ELSE [config |-> cfg, calls |-> <<fetched>>, result |-> Threw(outcome.error)]

login(username, password) ==
    /\ pc = "idle"
    /\ \E outcome \in LoginOutcomes :
         LET run == loginRun(config, username, password, outcome)
         IN  /\ config' = run.config
             /\ calls' = run.calls
             /\ result' = run.result
    /\ call' = [op |-> "login", username |-> username, password |-> password]
    /\ UNCHANGED <<state, pc, page, audiobooks>>

\* ------------------------------------------------------------ getLibrary

\* mutant of notLoggedIn: the token is not looked at
notLoggedInNever(cfg) == FALSE

\* if (!this.config.authToken) throw new Error("Not logged in")
notLoggedIn(cfg) == ~Truthy(cfg.authToken)

\* audiobooks[book.isbn] = book: a new key is appended, a known key keeps its place
putBook(map, book) ==
    IF \E i \in 1..Len(map) : map[i].isbn = book.isbn
    THEN [i \in 1..Len(map) |-> IF map[i].isbn = book.isbn THEN book ELSE map[i]]
    ELSE Append(map, book)

\* for (const book of data.audiobooks) audiobooks[book.isbn] = book
RECURSIVE mergePage(_, _)
mergePage(map, items) ==
    IF items = <<>> THEN map
    ELSE mergePage(putBook(map, Head(items)), Tail(items))

\* mutant of lastPage: == in place of >=
lastPageExact(p, data) == p = data.total_pages

\* mutant of lastPage: the loop stops one page late
lastPageOffByOne(p, data) == p > data.total_pages

\* if (page >= data.total_pages) break
lastPage(p, data) == p >= data.total_pages

\* mutant of onFetchFailure: the token survives a failed page request
onFetchFailureKeepsToken(cfg) == cfg

\* mutant of onFetchFailure: the password is dropped with the token
onFetchFailureForgetsPassword(cfg) ==
    Change(cfg, [authToken |-> Undefined, password |-> Undefined])

\* the catch block of the loop: this.config.change({authToken: undefined})
onFetchFailure(cfg) == Change(cfg, [authToken |-> Undefined])

\* mutant of libraryResult: getNewBooks returns the library undiffed
libraryResultUndiffed(op, st, library) == library

\* what the caller of getLibrary gets from the library: getLibrary returns
\* it, getNewBooks returns this.state.findDiff(library)
libraryResult(op, st, library) ==
    IF op = "getNewBooks" THEN findDiff(st, library) ELSE library

\* the entry of getLibrary, called as `op` (getLibrary itself, or getNewBooks
\* which starts by calling it)
enterLibrary(op) ==
    /\ pc = "idle"
    /\ call' = [op |-> op]
    /\ calls' = <<>>
    /\ IF notLoggedIn(config)
       THEN /\ result' = Threw("Not logged in")
            /\ UNCHANGED <<pc, page, audiobooks>>
       ELSE /\ result' = Pending
            /\ pc' = "fetchLibrary"
            /\ page' = 1
            /\ audiobooks' = <<>>
    /\ UNCHANGED <<config, state>>

getLibrary == enterLibrary("getLibrary")

getNewBooks == enterLibrary("getNewBooks")

\* the loop is left: its locals go out of scope
leaveLibrary ==
    /\ pc' = "idle"
    /\ page' = 1
    /\ audiobooks' = <<>>

\* one turn of the loop in which fetchLibrary answers `data`
fetchLibraryOk(data) ==
    /\ pc = "fetchLibrary"
    /\ LET merged == mergePage(audiobooks, data.audiobooks)
       IN  /\ calls' = Append(calls, [fn |-> "fetchLibrary", authToken |-> config.authToken,
                                      page |-> page, answer |-> [ok |-> TRUE, data |-> data]])
           /\ IF lastPage(page, data)
              THEN /\ result' = ReturnedBooks(libraryResult(call.op, state, merged))
                   /\ leaveLibrary
              ELSE /\ page' = page + 1
                   /\ audiobooks' = merged
                   /\ UNCHANGED <<pc, result>>
    /\ UNCHANGED <<config, state, call>>

\* one turn of the loop in which fetchLibrary fails with `error`
fetchLibraryFail(error) ==
    /\ pc = "fetchLibrary"
    /\ calls' = Append(calls, [fn |-> "fetchLibrary", authToken |-> config.authToken,
                               page |-> page, answer |-> [ok |-> FALSE, error |-> error]])
    /\ config' = onFetchFailure(config)
    /\ result' = ReturnedBooks(libraryResult(call.op, state, audiobooks))
    /\ leaveLibrary
    /\ UNCHANGED <<state, call>>

\* ------------------------------------------------------------ init

\* mutant of credentialsMissing: the credentials are always asked for
credentialsMissingAlways(cfg) == TRUE

\* mutant of credentialsMissing: && in place of ||
credentialsMissingBoth(cfg) == ~Truthy(cfg.username) /\ ~Truthy(cfg.password)

\* !this.config.username || !this.config.password
credentialsMissing(cfg) == ~Truthy(cfg.username) \/ ~Truthy(cfg.password)

\* mutant of downloadDirMissing: the download directory is not looked at
downloadDirMissingNever(cfg) == FALSE

\* !this.config.downloadDir
downloadDirMissing(cfg) == ~Truthy(cfg.downloadDir)

\* how an atomic operation ends: the config and the ledger it leaves, the
\* collaborator calls it made and its result
finish(cfg, st, made, res) ==
    /\ config' = cfg
    /\ state' = st
    /\ calls' = made
    /\ result' = res

\* the second half of init: the download directory
initDownloadDir(cfg, made) ==
    IF downloadDirMissing(cfg)
    THEN \E downloadDir \in DownloadLocations :
            LET asked == Append(made, [fn |-> "requestDownloadLocation",
                                       answer |-> downloadDir])
                changed == Change(cfg, [downloadDir |-> downloadDir])
            IN  IF downloadDirMissing(changed)
                THEN finish(changed, state, asked, Threw("Download directory not provided"))
                ELSE finish(changed, state, asked, ReturnedVoid)
    ELSE finish(cfg, state, made, ReturnedVoid)

\* await this.login(this.config.username, this.config.password), then the rest
initLogin(cfg, made) ==
    \E outcome \in LoginOutcomes :
        LET run == loginRun(cfg, cfg.username, cfg.password, outcome)
        IN  IF run.result.status = "threw"
            THEN finish(run.config, state, made \o run.calls, run.result)
            ELSE initDownloadDir(run.config, made \o run.calls)

init ==
    /\ pc = "idle"
    /\ call' = [op |-> "init"]
    /\ IF notLoggedIn(config)
       THEN IF credentialsMissing(config)
            THEN \E credentials \in Credentials :
                    LET asked == <<[fn |-> "requestCredentials", answer |-> credentials]>>
                        changed == Change(config, credentials)
                    IN  IF credentialsMissing(changed)
                        THEN finish(changed, state, asked,
                                    Threw("Username or password not provided"))
                        ELSE initLogin(changed, asked)
            ELSE initLogin(config, <<>>)
       ELSE initDownloadDir(config, <<>>)
    /\ UNCHANGED <<pc, page, audiobooks>>

\* ------------------------------------------------------------ downloadBook

\* mutant of asksOverwrite: the overwrite flag is not looked at
asksOverwriteIgnoringFlag(st, book, overwrite) == hasBook(st, book.isbn)

\* if (!overwrite && this.state.hasBook(book.isbn)): requestOverwrite is asked
asksOverwrite(st, book, overwrite) == ~overwrite /\ hasBook(st, book.isbn)

\* if (!book.authors): absent, or the empty string; an array is never falsy
noAuthorsFound(book) ==
    \/ book.authors.kind = "absent"
    \/ book.authors.kind = "string" /\ ~Truthy(book.authors.s)

\* typeof book.authors === "string" ? book.authors : book.authors.join(", ")
authorsOf(book) ==
    IF book.authors.kind = "string" THEN book.authors.s ELSE Join(book.authors.l, ", ")

\* typeof book.series === "string" ? book.series : null
seriesOf(book) == IF book.series # Undefined THEN book.series ELSE Undefined

\* [book.series_num, book.title].filter(Boolean).join(' - ')
titleOf(book) == Join(FilterBoolean(<<book.series_num, book.title>>), " - ")

\* mutant of filenameOf: the components are joined unfiltered
filenameOfUnfiltered(book) ==
    Join(<<authorsOf(book),
           IF seriesOf(book) = Undefined THEN "" ELSE seriesOf(book),
           titleOf(book)>>, "/")

\* [authors, series, title].filter(Boolean).join('/')
filenameOf(book) ==
    Join(FilterBoolean(<<authorsOf(book), seriesOf(book), titleOf(book)>>), "/")

\* metadata.parts.map((p) => p.url)
urlsOf(metadata) == [i \in 1..Len(metadata.parts) |-> metadata.parts[i].url]

\* mutant of newRecord: zippedPaths is always written
newRecordAlwaysZipped(book, path, metadata, zipped_files) ==
    [book |-> book, path |-> path, meta |-> metadata, zippedPaths |-> zipped_files.paths]

\* {book, path, meta: metadata, ...(zipped_files && {zippedPaths: zipped_files})}
newRecord(book, path, metadata, zipped_files) ==
    IF zipped_files.defined
    THEN [book |-> book, path |-> path, meta |-> metadata, zippedPaths |-> zipped_files.paths]
    ELSE [book |-> book, path |-> path, meta |-> metadata]

\* mutant of recordDownload: the record is not written
recordDownloadForgotten(st, book, path, metadata, zipped_files) == st

\* this.state.addBook({...}) after downloadFiles and saveMetadata
recordDownload(st, book, path, metadata, zipped_files) ==
    addBook(st, newRecord(book, path, metadata, zipped_files))

\* mutant of skipsDownload: the answer "no" is not honoured
skipsDownloadNever(shouldOverwrite) == FALSE

\* if (!shouldOverwrite) return ""
skipsDownload(shouldOverwrite) == ~shouldOverwrite

\* mutant of metadataFailed: the call stands inside the try
metadataFailedWrapped(thrown) == "Failed to download books"

\* await this.getDownloadMetadata(book.isbn) stands outside the try: what
\* fetchDownloadMetadata throws is what downloadBook throws
metadataFailed(thrown) == thrown

\* mutant of downloadFailed: the caught error is thrown again
downloadFailedRethrown(caught) == caught

\* the catch block of the try: the error thrown in place of the one caught
downloadFailed(caught) == "Failed to download books"

\* the try block, entered with the collaborator calls `made` so far
downloadTry(book, keepZip, metadata, made, filesOutcomes, saveOutcomes) ==
    IF noAuthorsFound(book)
    THEN finish(config, state, made, Threw(downloadFailed("No authors found")))
    ELSE \E files \in filesOutcomes :
            LET downloaded ==
                    Append(made, [fn |-> "downloadFiles", filename |-> filenameOf(book),
                                  urls |-> urlsOf(metadata), authToken |-> config.authToken,
                                  keepZip |-> keepZip, downloadDir |-> config.downloadDir,
                                  answer |-> files])
            IN  IF ~files.ok
                THEN finish(config, state, downloaded, Threw(downloadFailed(files.error)))
                ELSE \E save \in saveOutcomes :
                        LET saved ==
                                Append(downloaded,
                                       [fn |-> "saveMetadata", book |-> book,
                                        metadata |-> metadata, path |-> files.path,
                                        answer |-> save])
                        IN  IF ~save.ok
                            THEN finish(config, state, saved,
                                        Threw(downloadFailed(save.error)))
                            ELSE finish(config,
                                        recordDownload(state, book, files.path, metadata,
                                                       files.zipped_files),
                                        saved, ReturnedString(filenameOf(book)))

\* downloadBook(book, overwrite, keepZip), the collaborators answering from
\* the given sets
downloadBook(book, overwrite, keepZip, metadataOutcomes, filesOutcomes, saveOutcomes) ==
    /\ pc = "idle"
    /\ call' = [op |-> "downloadBook", book |-> book, overwrite |-> overwrite,
                keepZip |-> keepZip]
    /\ IF notLoggedIn(config)
       THEN finish(config, state, <<>>, Threw("Not logged in"))
       ELSE \E fetched \in metadataOutcomes :
               LET resolved == <<[fn |-> "fetchDownloadMetadata",
                                  authToken |-> config.authToken, isbn |-> book.isbn,
                                  answer |-> fetched]>>
               IN  IF ~fetched.ok
                   THEN finish(config, state, resolved,
                               Threw(metadataFailed(fetched.error)))
                   ELSE IF asksOverwrite(state, book, overwrite)
                        THEN \E shouldOverwrite \in BOOLEAN :
                                LET asked == Append(resolved,
                                                    [fn |-> "requestOverwrite", book |-> book,
                                                     answer |-> shouldOverwrite])
                                IN  IF skipsDownload(shouldOverwrite)
                                    THEN finish(config, state, asked, ReturnedString(""))
                                    ELSE downloadTry(book, keepZip, fetched.data, asked,
                                                     filesOutcomes, saveOutcomes)
                        ELSE downloadTry(book, keepZip, fetched.data, resolved,
                                         filesOutcomes, saveOutcomes)
    /\ UNCHANGED <<pc, page, audiobooks>>

\* ------------------------------------------------------------ specification

\* the client's operations, called in any order, the collaborators answering
\* in every way
Next ==
    \/ init /\ UNCHANGED <<remote, sync>>
    \/ \E u \in {"user"}, p \in {"pass"} : login(u, p) /\ UNCHANGED <<remote, sync>>
    \/ getLibrary /\ UNCHANGED <<remote, sync>>
    \/ getNewBooks /\ UNCHANGED <<remote, sync>>
    \/ \E data \in PageData : fetchLibraryOk(data) /\ UNCHANGED <<remote, sync>>
    \/ \E e \in GatewayErrors : fetchLibraryFail(e) /\ UNCHANGED <<remote, sync>>
    \/ \E book \in Books, overwrite \in BOOLEAN, keepZip \in BOOLEAN :
         /\ downloadBook(book, overwrite, keepZip, MetadataOutcomes(book.isbn),
                         FilesOutcomes, SaveOutcomes)
         /\ UNCHANGED <<remote, sync>>

Spec == Init /\ [][Next]_vars

\* ------------------------------------------------------------ the full sync

\* the answers of a set in which the call succeeds
Succeeding(outcomes) == {o \in outcomes : o.ok}

\* the ledgers a full sync starts from
SyncStates ==
    InitialStates
        \cup {addBook(<<>>, [book |-> bookB, path |-> "p0",
                             meta |-> [isbn |-> "i2", parts |-> <<[url |-> "u0"]>>]])}

\* a valid session, any of the ledgers, any remote catalog
SyncInit ==
    /\ config = [authToken |-> "tok1", username |-> "user", password |-> "pass",
                 downloadDir |-> "dir"]
    /\ state \in SyncStates
    /\ pc = "idle"
    /\ page = 1
    /\ audiobooks = <<>>
    /\ call = [op |-> "constructor"]
    /\ calls = <<>>
    /\ result = ReturnedVoid
    /\ remote \in [1..MaxTotalPages -> PageData]
    /\ sync = [phase |-> "start", todo |-> <<>>, reported |-> <<>>]

\* the first getNewBooks of the sync
SyncFirstDiff ==
    /\ sync.phase = "start"
    /\ getNewBooks
    /\ sync' = [sync EXCEPT !.phase = "diff1"]
    /\ UNCHANGED remote

\* a page request of either getNewBooks, answered by the remote catalog; when
\* the first getNewBooks returns, what it reports is to be downloaded
SyncPage ==
    /\ sync.phase \in {"diff1", "diff2"}
    /\ pc = "fetchLibrary"
    /\ fetchLibraryOk(remote[page])
    /\ sync' = IF pc' # "idle" THEN sync
               ELSE IF sync.phase = "diff1"
                    THEN [phase |-> "download", todo |-> result'.books,
                          reported |-> result'.books]
                    ELSE [sync EXCEPT !.phase = "done"]
    /\ UNCHANGED remote

\* downloadBook for the next reported item, every collaborator call succeeding
SyncDownload ==
    /\ sync.phase = "download"
    /\ sync.todo # <<>>
    /\ \E overwrite \in BOOLEAN, keepZip \in BOOLEAN :
         downloadBook(Head(sync.todo), overwrite, keepZip,
                      Succeeding(MetadataOutcomes(Head(sync.todo).isbn)),
                      Succeeding(FilesOutcomes), Succeeding(SaveOutcomes))
    /\ sync' = [sync EXCEPT !.todo = Tail(@)]
    /\ UNCHANGED remote

\* the getNewBooks of the second run, once every reported item was tried
SyncSecondDiff ==
    /\ sync.phase = "download"
    /\ sync.todo = <<>>
    /\ getNewBooks
    /\ sync' = [sync EXCEPT !.phase = "diff2"]
    /\ UNCHANGED remote

SyncNext ==
    \/ SyncFirstDiff
    \/ SyncPage
    \/ SyncDownload
    \/ SyncSecondDiff

\* the full sync run twice: getNewBooks, downloadBook for each reported
\* item, getNewBooks again, the remote catalog unchanged
SyncSpec == SyncInit /\ [][SyncNext]_vars

\* ------------------------------------------------------------ what the claims speak of

\* the operation named by `call` has ended (getLibrary's loop included)
Ended == pc = "idle" /\ result.status # "pending"

LibraryOps == {"getLibrary", "getNewBooks"}

\* the items of the pages that the page requests cs answered, in order
RECURSIVE ItemsOnPages(_)
ItemsOnPages(cs) ==
    IF cs = <<>> THEN <<>>
    ELSE (IF Head(cs).answer.ok THEN Head(cs).answer.data.audiobooks ELSE <<>>)
            \o ItemsOnPages(Tail(cs))

\* of a list of items, for every isbn the item that comes last
LatestItems(items) ==
    {items[i] : i \in {j \in 1..Len(items) :
                        \A k \in (j + 1)..Len(items) : items[k].isbn # items[j].isbn}}

\* the books of a list carry pairwise different isbns
OnePerIsbn(books) ==
    \A i, j \in 1..Len(books) : i # j => books[i].isbn # books[j].isbn

\* the index of the first failed page request of the operation, 0 if none
FirstFailure ==
    IF \E i \in 1..Len(calls) : ~calls[i].answer.ok
    THEN CHOOSE i \in 1..Len(calls) :
            /\ ~calls[i].answer.ok
            /\ \A j \in 1..(i - 1) : calls[j].answer.ok
    ELSE 0

\* ------------------------------------------------------------ C1

\* C1: pagination failure degrades, not crashes.  When the request for page k
\* fails after pages 1..k-1 succeeded, getLibrary returns normally, what it
\* returns is exactly the items of pages 1..k-1 (one per isbn; nothing when
\* k = 1), the failed request is the last one, and the auth token is absent
\* afterwards.  getNewBooks, which calls getLibrary, likewise returns normally
\* with the token absent.
C1_PaginationFailureDegrades ==
    (call.op \in LibraryOps /\ FirstFailure > 0) =>
        LET k == FirstFailure
        IN  /\ Ended
            /\ result.status = "returned"
            /\ Len(calls) = k
            /\ \A i \in 1..k : calls[i].page = i
            /\ config.authToken = Undefined
            /\ call.op = "getLibrary" =>
                /\ Range(result.books) = LatestItems(ItemsOnPages(SubSeq(calls, 1, k - 1)))
                /\ OnePerIsbn(result.books)

\* page 1 was answered with items, page 2 failed, and getLibrary has returned
C1_Witness ==
    /\ call.op = "getLibrary"
    /\ Ended
    /\ Len(calls) = 2
    /\ calls[1].answer.ok
    /\ calls[1].answer.data.audiobooks = <<bookA, bookB>>
    /\ ~calls[2].answer.ok
    /\ result.books = <<bookA, bookB>>

\* ------------------------------------------------------------ C2

\* every page request of the operation was answered, with total_pages = n
AllPagesReport(n) ==
    /\ calls # <<>>
    /\ \A i \in 1..Len(calls) :
        calls[i].answer.ok /\ calls[i].answer.data.total_pages = n

\* C2: pagination merge.  When every page request succeeds and every answer
\* reports the same total_pages = N >= 1, getLibrary makes exactly N page
\* requests, for pages 1..N in that order (it has not returned before the
\* N-th), returns one item per isbn found on the pages, for each isbn the
\* item of the latest page that has it, and leaves the auth token as it was
\* (the token every request was made with).
C2_PaginationMerge ==
    \A n \in 1..MaxTotalPages :
        (call.op = "getLibrary" /\ AllPagesReport(n)) =>
            /\ \A i \in 1..Len(calls) : calls[i].page = i
            /\ \A i \in 1..Len(calls) : calls[i].authToken = config.authToken
            /\ Truthy(config.authToken)
            /\ Len(calls) <= n
            /\ Ended <=> Len(calls) = n
            /\ Ended =>
                /\ result.status = "returned"
                /\ Range(result.books) = LatestItems(ItemsOnPages(calls))
                /\ OnePerIsbn(result.books)
                /\ {b.isbn : b \in Range(result.books)}
                     = {b.isbn : b \in Range(ItemsOnPages(calls))}

\* two pages, both reporting total_pages = 2, with i2 on both: the returned
\* library holds i2's item of page 2
C2_Witness ==
    /\ call.op = "getLibrary"
    /\ Ended
    /\ AllPagesReport(2)
    /\ Len(calls) = 2
    /\ calls[1].answer.data.audiobooks = <<bookA, bookB>>
    /\ calls[2].answer.data.audiobooks = <<bookC>>
    /\ result.books = <<bookA, bookC>>

\* ------------------------------------------------------------ C3

\* C3: diff correctness.  getNewBooks returns exactly the items of the
\* fetched library (for every isbn the latest item on the answered pages)
\* whose isbn has no record in the ledger, each once: none that has a
\* record, none missing, whatever downloads came before.
C3_DiffCorrectness ==
    (call.op = "getNewBooks" /\ Ended /\ result.status = "returned") =>
        /\ Range(result.books) =
             {b \in LatestItems(ItemsOnPages(calls)) : b.isbn \notin DOMAIN state}
        /\ OnePerIsbn(result.books)

\* the library holds i1 and i2, i1 was downloaded by this client before, and
\* getNewBooks reports i2 alone
C3_Witness ==
    /\ call.op = "getNewBooks"
    /\ Ended
    /\ Len(calls) = 1
    /\ calls[1].answer.ok
    /\ calls[1].answer.data.audiobooks = <<bookA, bookB>>
    /\ DOMAIN state = {"i1"}
    /\ state["i1"].path = "p2"
    /\ result.books = <<bookB>>

\* ------------------------------------------------------------ C4

\* the item carries at least one author
CarriesAuthor(book) ==
    \/ book.authors.kind = "string" /\ book.authors.s \notin {Undefined, ""}
    \/ book.authors.kind = "list" /\ book.authors.l # <<>>

\* C4 as claimed: for every remote catalog and every initial ledger, after a
\* full sync in which every Gateway and Transfer call succeeded, the second
\* getNewBooks returns the empty list.
C4_IdempotentRerun ==
    sync.phase = "done" => result.books = <<>>

\* C4 as amended: the same, when every item the first getNewBooks reported
\* carries at least one author (downloadBook fails for an item without
\* authors, writes no record for it, and the item is reported again).
C4_IdempotentRerunWithAuthors ==
    (sync.phase = "done" /\ \A b \in Range(sync.reported) : CarriesAuthor(b))
        => result.books = <<>>

\* both items of the catalog were reported and downloaded, and the second
\* getNewBooks reports nothing
C4_Witness ==
    /\ sync.phase = "done"
    /\ sync.reported = <<bookA, bookB>>
    /\ DOMAIN state = {"i1", "i2"}
    /\ result.books = <<>>

\* ------------------------------------------------------------ C5

\* the indices of the calls to the functions fns among the calls cs
CallsTo(cs, fns) == {i \in 1..Len(cs) : cs[i].fn \in fns}

TransferFns == {"downloadFiles", "saveMetadata"}

\* requestOverwrite was called and answered `answer`
Answered(cs, answer) ==
    \E i \in CallsTo(cs, {"requestOverwrite"}) : cs[i].answer = answer

\* C5: overwrite skip.  A downloadBook call for a book whose isbn has a ledger
\* record, with overwrite = false and the overwrite decision "no", returns
\* the empty string, calls neither downloadFiles nor saveMetadata, and leaves
\* the whole ledger as it was.
C5_OverwriteSkip ==
    [][(/\ call'.op = "downloadBook"
        /\ call'.book.isbn \in DOMAIN state
        /\ ~call'.overwrite
        /\ Answered(calls', FALSE))
       => /\ result' = ReturnedString("")
          /\ CallsTo(calls', TransferFns) = {}
          /\ state' = state]_vars

\* downloadBook for i1, recorded by an earlier run, was answered "no": the
\* old record is still there
C5_Witness ==
    /\ call.op = "downloadBook"
    /\ call.book = bookA
    /\ ~call.overwrite
    /\ Answered(calls, FALSE)
    /\ result = ReturnedString("")
    /\ state["i1"] = OldRecord

\* ------------------------------------------------------------ C6

\* the download metadata was resolved: the first call is a successful
\* fetchDownloadMetadata
Resolved(cs) ==
    /\ cs # <<>>
    /\ cs[1].fn = "fetchDownloadMetadata"
    /\ cs[1].answer.ok

\* every collaborator call among cs succeeded
AllSucceeded(cs) ==
    \A i \in 1..Len(cs) : cs[i].fn # "requestOverwrite" => cs[i].answer.ok

\* the ledger st holds for the book a record made of the book, of the
\* metadata resolved in cs and of the path returned by the one downloadFiles
\* call in cs
Replaced(st, book, cs) ==
    /\ Cardinality(CallsTo(cs, {"downloadFiles"})) = 1
    /\ book.isbn \in DOMAIN st
    /\ st[book.isbn].book = book
    /\ st[book.isbn].meta = cs[1].answer.data
    /\ \A i \in CallsTo(cs, {"downloadFiles"}) : st[book.isbn].path = cs[i].answer.path

\* once the metadata is resolved, the decision is requested exactly when
\* overwrite = false and a record exists
AsksExactlyWhenRecorded ==
    (call'.op = "downloadBook" /\ Resolved(calls'))
        => (CallsTo(calls', {"requestOverwrite"}) # {}
                <=> (~call'.overwrite /\ call'.book.isbn \in DOMAIN state))

CarriesNoAuthor(book) ==
    \/ book.authors.kind = "absent"
    \/ book.authors.kind = "list" /\ book.authors.l = <<>>
    \/ book.authors.kind = "string" /\ book.authors.s = ""

\* C7: missing authors aborts before transfer.  A downloadBook call for an
\* item that carries no author, once it has a valid token, its metadata and
\* (where one is asked) the decision to overwrite, fails with the generic
\* download error, calls neither downloadFiles nor saveMetadata and leaves
\* the ledger as it was.
C7_MissingAuthorsAbort ==
    [][(/\ call'.op = "downloadBook"
        /\ CarriesNoAuthor(call'.book)
        /\ Resolved(calls')
        /\ ~Answered(calls', FALSE))
       => /\ result' = Threw("Failed to download books")
          /\ CallsTo(calls', TransferFns) = {}
          /\ state' = state]_vars

\* ------------------------------------------------------------ C8

ISBNs == {b.isbn : b \in Books}

\* the ledger entry of x: its record, if it has one
Entry(st, x) == IF x \in DOMAIN st THEN <<st[x]>> ELSE <<>>

\* the ledger st holds for x a record that the downloadBook call c, which
\* made the collaborator calls cs, wrote after downloadFiles and then
\* saveMetadata had succeeded: its path and its archive paths are those that
\* downloadFiles returned
WrittenAfterComplete(st, x, c, cs) ==
    /\ c.op = "downloadBook"
    /\ c.book.isbn = x
    /\ x \in DOMAIN st
    /\ \E i, j \in 1..Len(cs) :
        /\ i < j
        /\ cs[i].fn = "downloadFiles" /\ cs[i].answer.ok
        /\ cs[j].fn = "saveMetadata" /\ cs[j].answer.ok
        /\ st[x].path = cs[i].answer.path
        /\ "zippedPaths" \in DOMAIN st[x] <=> cs[i].answer.zipped_files.defined
        /\ cs[i].answer.zipped_files.defined
            => st[x].zippedPaths = cs[i].answer.zipped_files.paths

\* C8: write-after-complete.  Whatever the operation and however the
\* collaborators answer, a step changes the ledger entry of an isbn X only
\* by writing, in a downloadBook call for X in which downloadFiles and then
\* saveMetadata succeeded, a record whose path is the one downloadFiles
\* returned and which carries archive paths exactly if downloadFiles
\* returned them.
C8_WriteAfterComplete ==
    [][\A x \in ISBNs :
        Entry(state', x) # Entry(state, x)
            => WrittenAfterComplete(state', x, call', calls')]_vars

\* a record with archive paths was just written for i2 while i1 has one
\* without
C8_Witness ==
    /\ call.op = "downloadBook"
    /\ call.book.isbn = "i2"
    /\ DOMAIN state = {"i1", "i2"}
    /\ "zippedPaths" \in DOMAIN state["i2"]
    /\ state["i2"].path = "p2"
    /\ "zippedPaths" \notin DOMAIN state["i1"]
    /\ Len(calls) = 3

\* ------------------------------------------------------------ C9

\* downloadFiles or saveMetadata was called and failed
TransferFailed(cs) == \E i \in CallsTo(cs, TransferFns) : ~cs[i].answer.ok

\* C9: a failed download leaves the ledger intact.  When downloadFiles or
\* saveMetadata fails, downloadBook throws the generic download error, which
\* is not the error the collaborator failed with, and the ledger is as it
\* was: no record added or replaced, for this item or any other.
C9_FailedDownloadLeavesLedger ==
    [][(call'.op = "downloadBook" /\ TransferFailed(calls'))
       => /\ result' = Threw("Failed to download books")
          /\ \A i \in CallsTo(calls', TransferFns) :
                ~calls'[i].answer.ok => result'.error # calls'[i].answer.error
          /\ state' = state]_vars

\* saveMetadata failed after downloadFiles succeeded, in a forced overwrite
\* of i1: the old record is still there
C9_Witness ==
    /\ call.op = "downloadBook"
    /\ call.book = bookA
    /\ call.overwrite
    /\ Len(calls) = 3
    /\ calls[2].fn = "downloadFiles" /\ calls[2].answer.ok
    /\ calls[3].fn = "saveMetadata" /\ ~calls[3].answer.ok
    /\ result.status = "threw"
    /\ "i1" \in DOMAIN state
    /\ state["i1"] = OldRecord

\* ------------------------------------------------------------ C10

\* fetchDownloadMetadata was called and failed
ResolutionFailed(cs) ==
    \E i \in CallsTo(cs, {"fetchDownloadMetadata"}) : ~cs[i].answer.ok

\* C10: a metadata-resolution failure propagates.  When fetchDownloadMetadata
\* fails, downloadBook throws the Gateway's error, not the generic download
\* error; it has made no other collaborator call (no overwrite decision, no
\* Transfer call) and the ledger is as it was.
C10_MetadataFailurePropagates ==
    [][(call'.op = "downloadBook" /\ ResolutionFailed(calls'))
       => /\ Len(calls') = 1
          /\ result' = Threw(calls'[1].answer.error)
          /\ result'.error \in GatewayErrors
          /\ result'.error # "Failed to download books"
          /\ state' = state]_vars

\* the metadata of i1, which has a record, could not be resolved in a call
\* with overwrite = false
C10_Witness ==
    /\ call.op = "downloadBook"
    /\ call.book = bookA
    /\ ~call.overwrite
    /\ "i1" \in DOMAIN state
    /\ ResolutionFailed(calls)
    /\ result = Threw("Unauthorized")

\* ------------------------------------------------------------ C11

\* the Gateway calls that carry the auth token
AuthenticatedFns == {"fetchLibrary", "fetchDownloadMetadata"}

\* one of the authenticated Gateway calls among cs failed
AuthenticatedCallFailed(cs) ==
    \E i \in CallsTo(cs, AuthenticatedFns) : ~cs[i].answer.ok

\* C11 as claimed: session invalidation on any failed authenticated call.
\* Whenever an authenticated Gateway call has failed, be it a page request of
\* getLibrary or the download-metadata resolution of downloadBook, the auth
\* token is absent once the operation has returned.
C11_FailedCallInvalidatesSession ==
    (Ended /\ call.op \in LibraryOps \cup {"downloadBook"}
           /\ AuthenticatedCallFailed(calls))
        => ~Truthy(config.authToken)

\* C11 as amended: a failed page request of getLibrary (or of getNewBooks)
\* leaves the auth token absent once the operation has returned; a failed
\* download-metadata resolution of downloadBook leaves the whole session
\* store, the token included, as it was.
C11_FailedPageInvalidatesSession ==
    [][/\ (call'.op \in LibraryOps /\ AuthenticatedCallFailed(calls'))
            => (Ended' /\ config'.authToken = Undefined)
       /\ (call'.op = "downloadBook" /\ AuthenticatedCallFailed(calls'))
            => (Ended' /\ config' = config /\ Truthy(config'.authToken))]_vars

\* the metadata could not be resolved, downloadBook has thrown, and the
\* token is still there
C11_Witness ==
    /\ call.op = "downloadBook"
    /\ Ended
    /\ ResolutionFailed(calls)
    /\ result.status = "threw"
    /\ config.authToken = "tok1"

\* ------------------------------------------------------------ C12

\* the operations that need a session
SessionOps == {"getLibrary", "getNewBooks", "downloadBook"}

\* C12: the not-authenticated precondition.  getLibrary, getNewBooks and
\* downloadBook, called while the session has no auth token, fail with the
\* not-authenticated error before any Gateway, Transfer or Interactive Input
\* call, and leave the session store and the ledger as they were.
C12_NotAuthenticated ==
    [][(pc = "idle" /\ call'.op \in SessionOps /\ ~Truthy(config.authToken))
       => /\ result' = Threw("Not logged in")
          /\ calls' = <<>>
          /\ pc' = "idle"
          /\ config' = config
          /\ state' = state]_vars

\* downloadBook was called without a token, for a book that has a record
C12_Witness ==
    /\ call.op = "downloadBook"
    /\ call.book = bookA
    /\ config.authToken = Undefined
    /\ result = Threw("Not logged in")
    /\ calls = <<>>
    /\ "i1" \in DOMAIN state

\* ------------------------------------------------------------ C13

\* C13 as claimed: getNewBooks has no side effects.  However the page
\* requests end, no step of getNewBooks changes the ledger or the session
\* store (auth token, username, password, download directory).
C13_NewBooksNoSideEffects ==
    [][call'.op = "getNewBooks" => (config' = config /\ state' = state)]_vars

\* this step is a page request that failed
PageFailedNow == pc = "fetchLibrary" /\ ~calls'[Len(calls')].answer.ok

\* C13 as amended: no step of getNewBooks changes the ledger, the username,
\* the password or the download directory; the auth token is cleared by a
\* failed page request and is otherwise left as it was.
C13_NewBooksClearsOnlyToken ==
    [][call'.op = "getNewBooks"
       => /\ state' = state
          /\ config'.username = config.username
          /\ config'.password = config.password
          /\ config'.downloadDir = config.downloadDir
          /\ config'.authToken =
                IF PageFailedNow THEN Undefined ELSE config.authToken]_vars

\* getNewBooks has returned after a failed page request: the token is gone,
\* the rest of the store and the ledger are still there
C13_Witness ==
    /\ call.op = "getNewBooks"
    /\ Ended
    /\ FirstFailure > 0
    /\ config = [username |-> "user", password |-> "pass",
                 authToken |-> Undefined, downloadDir |-> "dir"]
    /\ "i1" \in DOMAIN state

\* ------------------------------------------------------------ C14

\* the Gateway call that resolves the download metadata
ResolutionFns == {"fetchDownloadMetadata"}

\* C14: missing authors aborts before any network work.  A downloadBook call
\* with a valid token for an item that carries no author fails with the
\* generic download error, and has made no Gateway call (no download-metadata
\* resolution) and no Transfer call.
C14_MissingAuthorsAbortFirst ==
    [][(/\ call'.op = "downloadBook"
        /\ Truthy(config.authToken)
        /\ CarriesNoAuthor(call'.book))
       => /\ result' = Threw("Failed to download books")
          /\ CallsTo(calls', ResolutionFns) = {}
          /\ CallsTo(calls', TransferFns) = {}]_vars

\* ------------------------------------------------------------ C15

\* some Interactive Input call or Gateway call was made
InputFns == {"requestCredentials", "requestDownloadLocation", "requestOverwrite"}

GatewayFns == {"fetchLoginData", "fetchLibrary", "fetchDownloadMetadata"}

\* C15: init is idempotent.  Called with an auth token and a download
\* directory in the store, init makes no Interactive Input call and no
\* Gateway call and leaves the store as it was; and whenever init returns
\* normally, from whatever store, both the token and the download directory
\* are present afterwards.
C15_InitIdempotent ==
    [][call'.op = "init"
       => /\ (Truthy(config.authToken) /\ Truthy(config.downloadDir))
                => /\ CallsTo(calls', InputFns \cup GatewayFns) = {}
                   /\ calls' = <<>>
                   /\ config' = config
                   /\ state' = state
                   /\ result' = ReturnedVoid
          /\ result'.status = "returned"
                => (Truthy(config'.authToken) /\ Truthy(config'.downloadDir))]_vars

\* init has returned from a complete store without calling anyone
C15_Witness ==
    /\ call.op = "init"
    /\ calls = <<>>
    /\ result = ReturnedVoid
    /\ config.authToken = "tok2"
    /\ config.downloadDir = "dir"

\* ------------------------------------------------------------ C16

\* C16: the setup errors of init.  With no token in the store, if the
\* username or the password is still absent after the credential prompt,
\* init fails with the missing-credentials error, login is not called and the
\* token stays absent.  If, with a token present, the download directory is
\* still absent after the directory prompt, init fails with the
\* missing-download-directory error.  Credentials are prompted for only when
\* the token is absent and the username or the password is missing, the
\* directory only when it is absent, each at most once.
C16_SetupErrors ==
    [][call'.op = "init"
       => /\ (/\ ~Truthy(config.authToken)
              /\ ~Truthy(config'.username) \/ ~Truthy(config'.password))
                => /\ CallsTo(calls', {"requestCredentials"}) # {}
                   /\ result' = Threw("Username or password not provided")
                   /\ CallsTo(calls', {"fetchLoginData"}) = {}
                   /\ ~Truthy(config'.authToken)
          /\ (Truthy(config'.authToken) /\ ~Truthy(config'.downloadDir))
                => /\ CallsTo(calls', {"requestDownloadLocation"}) # {}
                   /\ result' = Threw("Download directory not provided")
          /\ CallsTo(calls', {"requestCredentials"}) # {}
                => /\ ~Truthy(config.authToken)
                   /\ ~Truthy(config.username) \/ ~Truthy(config.password)
          /\ CallsTo(calls', {"requestDownloadLocation"}) # {}
                => ~Truthy(config.downloadDir)
          /\ Cardinality(CallsTo(calls', {"requestCredentials"})) <= 1
          /\ Cardinality(CallsTo(calls', {"requestDownloadLocation"})) <= 1]_vars

\* the credential prompt left the password out: init has thrown and nobody
\* else was called
C16_Witness ==
    /\ call.op = "init"
    /\ Len(calls) = 1
    /\ calls[1].fn = "requestCredentials"
    /\ calls[1].answer.password = Undefined
    /\ result = Threw("Username or password not provided")
    /\ config.authToken = Undefined

\* ------------------------------------------------------------ C17

\* C17: login stores the token only on success.  login makes exactly one
\* Gateway login call, with the username and password it was given, and
\* nothing else; init makes at most one.  When the call succeeds the auth
\* token is the access token it returned, whatever token was there before
\* (and login leaves the rest of the store alone and returns); when it fails,
\* login, and init around it, throws the very error the Gateway failed with,
\* it is the last call made, and the token is as it was before.
C17_LoginStoresTokenOnSuccess ==
    [][/\ call'.op = "login"
            => /\ Len(calls') = 1
               /\ calls'[1].fn = "fetchLoginData"
               /\ calls'[1].username = call'.username
               /\ calls'[1].password = call'.password
               /\ state' = state
               /\ calls'[1].answer.ok
                    => /\ result' = ReturnedVoid
                       /\ config' = [config EXCEPT
                                        !.authToken = calls'[1].answer.access_token]
               /\ ~calls'[1].answer.ok => config' = config
       /\ call'.op \in {"login", "init"}
            => /\ Cardinality(CallsTo(calls', {"fetchLoginData"})) <= 1
               /\ \A i \in CallsTo(calls', {"fetchLoginData"}) :
                    IF calls'[i].answer.ok
                    THEN config'.authToken = calls'[i].answer.access_token
                    ELSE /\ result' = Threw(calls'[i].answer.error)
                         /\ result'.error \in GatewayErrors
                         /\ i = Len(calls')
                         /\ config'.authToken = config.authToken]_vars

\* login was called with a token in the store and failed: the token is
\* still there
C17_Witness ==
    /\ call.op = "login"
    /\ Len(calls) = 1
    /\ ~calls[1].answer.ok
    /\ result = Threw("Unauthorized")
    /\ config.authToken = "tok1"

\* ------------------------------------------------------------ C18

\* the three path components of a book as the claim words them, "" standing
\* for a missing one
ComponentsOf(book) ==
    <<IF book.authors.kind = "list" THEN Join(book.authors.l, ", ")
      ELSE IF book.authors.kind = "string" THEN book.authors.s
      ELSE "",
      IF book.series = Undefined THEN "" ELSE book.series,
      IF book.series_num = Undefined THEN book.title
      ELSE book.series_num \o " - " \o book.title>>

\* the components that are present
PresentOf(book) == SelectSeq(ComponentsOf(book), LAMBDA c : c # "")

\* C18: path derivation.  The relative path that downloadBook passes to
\* Transfer's downloadFiles (and returns on success) is made of the authors
\* joined with ", " (or the author string itself), the series name and
\* "position - title" (the title alone without a position), the missing
\* components left out and the others joined with "/": no path component is
\* empty.  Authors [A. Author, B. Writer], series Saga, position 2, title The
\* Book give "A. Author, B. Writer/Saga/2 - The Book"; one author, no series
\* and no position give "A. Author/The Book".
C18_PathDerivation ==
    call.op = "downloadBook" =>
        \A i \in CallsTo(calls, {"downloadFiles"}) :
            /\ PresentOf(call.book) # <<>>
            /\ calls[i].filename = Join(PresentOf(call.book), "/")
            /\ call.book = bookA
                => calls[i].filename = "A. Author, B. Writer/Saga/2 - The Book"
            /\ call.book = bookB => calls[i].filename = "A. Author/The Book"
            /\ (result.status = "returned" /\ AllSucceeded(calls))
                => result.filename = calls[i].filename

\* downloadFiles was called for the book with two authors, a series and a
\* position
C18_Witness ==
    /\ call.op = "downloadBook"
    /\ call.book = bookA
    /\ \E i \in CallsTo(calls, {"downloadFiles"}) :
        calls[i].filename = "A. Author, B. Writer/Saga/2 - The Book"
    /\ result.filename = "A. Author, B. Writer/Saga/2 - The Book"

\* ------------------------------------------------------------ C19

\* C19: forced re-authentication and recovery, step by step.
\*  - A failed page request of getLibrary or getNewBooks leaves the token
\*    absent.
\*  - While the token is absent, every getLibrary, getNewBooks and
\*    downloadBook call fails with the not-authenticated error and makes no
\*    Gateway call.
\*  - The token becomes present again only by an init or login step whose
\*    Gateway login succeeded, and is then the access token it returned.
\*  - init, called without a token but with username and password in the
\*    store, does not prompt for credentials and makes exactly one Gateway
\*    call, the login with the stored username and password.
\*  - Every page request of getLibrary is made with the token of the store,
\*    the first one for page 1.
C19_ForcedReauthentication ==
    [][/\ (call'.op \in LibraryOps /\ PageFailedNow)
            => (Ended' /\ config'.authToken = Undefined)
       /\ (pc = "idle" /\ call'.op \in SessionOps /\ ~Truthy(config.authToken))
            => /\ result' = Threw("Not logged in")
               /\ CallsTo(calls', GatewayFns) = {}
               /\ ~Truthy(config'.authToken)
       /\ (~Truthy(config.authToken) /\ Truthy(config'.authToken))
            => /\ call'.op \in {"init", "login"}
               /\ \E i \in CallsTo(calls', {"fetchLoginData"}) :
                    /\ calls'[i].answer.ok
                    /\ config'.authToken = calls'[i].answer.access_token
       /\ (/\ call'.op = "init"
           /\ ~Truthy(config.authToken)
           /\ Truthy(config.username) /\ Truthy(config.password))
            => /\ CallsTo(calls', {"requestCredentials"}) = {}
               /\ Cardinality(CallsTo(calls', GatewayFns)) = 1
               /\ calls'[1].fn = "fetchLoginData"
               /\ calls'[1].username = config.username
               /\ calls'[1].password = config.password
       /\ pc = "fetchLibrary"
            => /\ Len(calls') = Len(calls) + 1
               /\ calls'[Len(calls')].page = Len(calls')
               /\ calls'[Len(calls')].authToken = config.authToken
               /\ Truthy(config.authToken)]_vars

\* init has logged in again with the stored credentials, without a prompt:
\* the new token is in the store
C19_Witness ==
    /\ call.op = "init"
    /\ calls # <<>>
    /\ calls[1].fn = "fetchLoginData"
    /\ calls[1].username = "user" /\ calls[1].password = "pass"
    /\ calls[1].answer.ok
    /\ calls[1].answer.access_token = "tok2"
    /\ config.authToken = "tok2"
    /\ result = ReturnedVoid

\* ------------------------------------------------------------ C20

\* every page request answered so far reported total_pages = n
AnswersReport(n) ==
    \A i \in 1..Len(calls) :
        calls[i].answer.ok => calls[i].answer.data.total_pages = n

\* the larger of 1 and n
AtLeastOne(n) == IF n > 1 THEN n ELSE 1

\* getLibrary's loop by itself: getLibrary and getNewBooks are called (and
\* login, which brings back the token a failed page request cleared), and
\* the Gateway answers each page request, with a page or with an error
fetchLibraryAnswered ==
    \/ \E data \in PageData : fetchLibraryOk(data)
    \/ \E e \in GatewayErrors : fetchLibraryFail(e)

PaginationNext ==
    \/ \E u \in {"user"}, p \in {"pass"} : login(u, p) /\ UNCHANGED <<remote, sync>>
    \/ getLibrary /\ UNCHANGED <<remote, sync>>
    \/ getNewBooks /\ UNCHANGED <<remote, sync>>
    \/ fetchLibraryAnswered /\ UNCHANGED <<remote, sync>>

\* every page request is answered in the end: the await of line 58 completes
PaginationSpec ==
    Init /\ [][PaginationNext]_vars
         /\ WF_vars(fetchLibraryAnswered /\ UNCHANGED <<remote, sync>>)

\* when every page answer so far reports the same total_pages = N, at most
\* max(1, N) page requests were made, for the pages 1, 2, ... in this order,
\* a failed request is the last one, and after the request for page
\* max(1, N), or after a failed one, getLibrary has returned; until then the
\* next page request is due
RequestsBounded ==
    \A n \in 0..MaxTotalPages :
        (call.op \in LibraryOps /\ AnswersReport(n)) =>
            /\ Len(calls) <= AtLeastOne(n)
            /\ \A i \in 1..Len(calls) : calls[i].page = i
            /\ \A i \in 1..(Len(calls) - 1) : calls[i].answer.ok
            /\ (Len(calls) = AtLeastOne(n) \/ FirstFailure > 0)
                => (Ended /\ result.status = "returned")
            /\ ~Ended => (pc = "fetchLibrary" /\ page = Len(calls) + 1)

\* C20: pagination terminates.  When every page answer reports the same
\* total_pages = N (N = 0 included), each request succeeding or failing,
\* getLibrary always returns, after at most max(1, N) page requests, made for
\* the pages 1, 2, ... in strictly increasing order, none above max(1, N) and
\* none twice.
C20_PaginationTerminates ==
    /\ []RequestsBounded
    /\ (pc = "fetchLibrary") ~> Ended

\* the one page reported total_pages = 0 and getLibrary has returned
C20_Witness ==
    /\ call.op = "getLibrary"
    /\ Ended
    /\ Len(calls) = 1
    /\ calls[1].answer.ok
    /\ calls[1].answer.data.total_pages = 0
    /\ result.status = "returned"

====
